---- MODULE Spec2Model ----
(***************************************************************************)
(* A model of the two playlist tools of the repository:                    *)
(*   scripts/url_sorter.py       sort_m3u_urls (parse, score, sort,        *)
(*                               rename, write)                            *)
(*   scripts/m3u_header_tool.py  process_m3u_header, safe_write_output,    *)
(*                               cleanup_temp_file, process_single_file,   *)
(*                               validate_arguments, main                  *)
(*                                                                         *)
(* Text is modelled as a sequence of tokens.  A token is one character or  *)
(* one of the markers the code looks for ("#EXTM3U", "#EXTINF", "://",     *)
(* "tvg-name=", "x-tvg-url="), so that substring tests, prefix tests,      *)
(* strip, rsplit and the regular-expression substitutions are computed on  *)
(* the text and not assumed.                                               *)
(***************************************************************************)
EXTENDS Integers, Sequences, FiniteSets, TLC

VARIABLES
    pc,                 \* position of the tool that is running
    \* ---- url_sorter.py: sort_m3u_urls ----
    lines,              \* the input file as read by readlines()
    input_exists,       \* FALSE: open(input_file) raises FileNotFoundError
    keywords,           \* parsed keyword list
    reverse_mode,       \* -r
    target_channels,    \* parsed -ch list (<<>>: None or empty, both falsy)
    new_name,           \* -rn (<<>>: None or empty, both falsy)
    processed_content,  \* <<header>> or <<>>
    channels_data,      \* sequence of [inf, urls]
    written,            \* lines written to the output file
    first_written,      \* output of the first run, kept when the tool is run again
    runs,               \* number of completed runs of the sorter
    \* ---- the sorted() call and rename_inf on their own ----
    item_list,          \* ch["urls"] handed to sorted()
    sorted_list,        \* its result
    inf_line,           \* info line handed to rename_inf
    final_inf,          \* its result
    \* ---- m3u_header_tool.py: process_m3u_header ----
    file_content,       \* text handed to process_m3u_header
    replace_value,      \* -e (None or <<text>>)
    force_value,        \* -E (None or <<text>>)
    delete_extm3u,      \* -c
    new_content,        \* text returned by process_m3u_header
    \* ---- m3u_header_tool.py: main, process_single_file, safe_write_output ----
    fs,                 \* the file system: absolute path -> [kind, readable, content]
    dir_writable,       \* os.access(<the working directory>, os.W_OK)
    args_input,         \* -i, one or more paths
    args_output,        \* -o (None or <<path>>)
    force_overwrite,    \* --force-overwrite
    idx,                \* position of the loop over args.input
    temp_path,          \* temp_path of safe_write_output (None or <<path>>)
    success,            \* result of process_single_file
    success_count,
    failed_count,
    exit_code,          \* exit status, NotExited while the tool runs
    orig_file,          \* the output path's file when process_single_file was called
    failed_step,        \* the step of the call that raised, "" when none did
    temp_complete,      \* the with-block wrote the whole text to the temp file
    unlink_failed,      \* os.unlink of the temp file raised
    some_file_failed    \* an input file was rejected or its processing failed

sorterVars == <<lines, input_exists, keywords, reverse_mode, target_channels,
                new_name, processed_content, channels_data, written,
                first_written, runs>>
sortVars == <<item_list, sorted_list>>
renameVars == <<inf_line, final_inf>>
optionVars == <<replace_value, force_value, delete_extm3u>>
headerVars == <<file_content, optionVars, new_content>>

toolVars == <<fs, dir_writable, args_input, args_output, force_overwrite, idx,
              temp_path, success, success_count, failed_count, exit_code,
              orig_file, failed_step, temp_complete, unlink_failed, some_file_failed>>

vars == <<pc, sorterVars, sortVars, renameVars, headerVars, toolVars>>

(***************************************************************************)
(* Text helpers (Python str operations on token sequences).                *)
(***************************************************************************)
Range(s) == {s[i] : i \in DOMAIN s}

\* tokens that are white space for str.strip()
Whitespace == {" "}

\* Python: sub in s
Contains(s, sub) ==
    \E p \in 1..(Len(s) - Len(sub) + 1) : SubSeq(s, p, p + Len(sub) - 1) = sub

\* Python: s.startswith(prefix)
StartsWith(s, prefix) ==
    Len(s) >= Len(prefix) /\ SubSeq(s, 1, Len(prefix)) = prefix

\* Python: s.rstrip()
RStrip(s) ==
    LET keep == {i \in DOMAIN s : s[i] \notin Whitespace}
    IN  IF keep = {} THEN <<>>
        ELSE SubSeq(s, 1, CHOOSE i \in keep : \A j \in keep : j <= i)

\* Python: s.strip()
Strip(s) ==
    LET keep == {i \in DOMAIN s : s[i] \notin Whitespace}
    IN  IF keep = {} THEN <<>>
        ELSE SubSeq(s, CHOOSE i \in keep : \A j \in keep : i <= j,
                       CHOOSE i \in keep : \A j \in keep : j <= i)

\* all sequences over S of length 0..n
SeqsUpTo(S, n) == UNION {[1..k -> S] : k \in 0..n}

(***************************************************************************)
(* The state of a tool that is not running.                                *)
(***************************************************************************)
\* an option that was not given
None == <<>>
Some(v) == <<v>>

\* exit_code while the header tool has not exited
NotExited == -1

IdleSorter ==
    /\ lines = <<>> /\ input_exists = TRUE
    /\ target_channels = <<>> /\ new_name = <<>>
    /\ processed_content = <<>> /\ channels_data = <<>>
    /\ written = <<>> /\ first_written = <<>> /\ runs = 0
IdleSort == item_list = <<>> /\ sorted_list = <<>>
IdleRename == inf_line = <<>> /\ final_inf = <<>>
IdleHeader ==
    /\ file_content = <<>> /\ new_content = <<>>
    /\ replace_value = None /\ force_value = None /\ delete_extm3u = FALSE
IdleTool ==
    /\ fs = <<>> /\ dir_writable = TRUE
    /\ args_input = <<>> /\ args_output = None /\ force_overwrite = FALSE
    /\ idx = 0 /\ temp_path = None /\ success = FALSE
    /\ success_count = 0 /\ failed_count = 0 /\ exit_code = NotExited
    /\ orig_file = <<>> /\ failed_step = "" /\ temp_complete = FALSE
    /\ unlink_failed = FALSE /\ some_file_failed = FALSE

(***************************************************************************)
(* Bounds of the inputs.                                                   *)
(***************************************************************************)
MaxKeywords == 2        \* keyword lists of the small catalogue have 0..MaxKeywords entries
MaxItems == 4           \* content lines of one channel handed to sorted()

(***************************************************************************)
(* url_sorter.py: scoring and sorting.                                     *)
(***************************************************************************)
\* the score of a line that is not a URL
NonUrlScore == 9999

\* keyword strings of the catalogue
KeywordPool == {<<"a">>, <<"b">>}

\* A keyword list is kept run-length encoded: the run [kw |-> k, times |-> n]
\* stands for n consecutive entries k of the Python list.  Every list of the
\* small catalogue has runs of one entry.
Run(k, n) == [kw |-> k, times |-> n]

RECURSIVE Entries(_, _)
\* number of list entries in the first r runs
Entries(kws, r) == IF r = 0 THEN 0 ELSE Entries(kws, r - 1) + kws[r].times

\* len(keywords)
KeywordCount(kws) == Entries(kws, Len(kws))

\* a keyword list with NonUrlScore entries: "z" repeated, then "b" as the last one
LongKeywords == <<Run(<<"z">>, NonUrlScore - 1), Run(<<"b">>, 1)>>

KeywordLists ==
    {[i \in DOMAIN ks |-> Run(ks[i], 1)] : ks \in SeqsUpTo(KeywordPool, MaxKeywords)}
        \cup {LongKeywords}

\* 0-based index of the first keyword of kws contained in item, -1 when there is none
\* (the loop "for index, kw in enumerate(keywords): if kw in item")
FirstMatch(kws, item) ==
    LET hits == {r \in DOMAIN kws : Contains(item, kws[r].kw)}
    IN  IF hits = {} THEN -1
        ELSE Entries(kws, (CHOOSE r \in hits : \A q \in hits : r <= q) - 1)

get_sort_score(item) ==
    IF ~Contains(item, <<"://">>) THEN NonUrlScore
    ELSE LET index == FirstMatch(keywords, item)
         IN  IF index >= 0
             THEN (IF reverse_mode THEN index + 1 ELSE index - KeywordCount(keywords))
             ELSE 0

\* a sort that places an element before the elements of equal key
InsertAtUnstable(acc, k) == Cardinality({i \in DOMAIN acc : acc[i].key < k})

\* position at which sorted() places an element of key k into the already
\* sorted prefix: after every element whose key is <= k (stable)
InsertAt(acc, k) == Cardinality({i \in DOMAIN acc : acc[i].key <= k})

RECURSIVE SortFrom(_, _, _)
SortFrom(decorated, i, acc) ==
    IF i > Len(decorated) THEN acc
    ELSE LET e == decorated[i]
             p == InsertAt(acc, e.key)
         IN  SortFrom(decorated, i + 1,
                      SubSeq(acc, 1, p) \o <<e>> \o SubSeq(acc, p + 1, Len(acc)))

\* sorted(items, key=get_sort_score): keys are computed once per element, the
\* result is the stable ordering by key; each element remembers its input position
SortedDecorated(items) ==
    SortFrom([i \in DOMAIN items |->
                 [key |-> get_sort_score(items[i]), pos |-> i, item |-> items[i]]],
             1, <<>>)

Sorted(items) ==
    LET d == SortedDecorated(items) IN [i \in DOMAIN d |-> d[i].item]

(***************************************************************************)
(* url_sorter.py: parsing.                                                 *)
(***************************************************************************)
\* current_inf = None
NoInf == <<>>

\* lines 25-27: the header is taken from lines[0] only
HeaderOf(ls) ==
    IF Len(ls) > 0 /\ Contains(ls[1], <<"#EXTM3U">>) THEN <<Strip(ls[1])>> ELSE <<>>

Flush(channels, current_inf, current_urls) ==
    IF current_inf # NoInf
    THEN Append(channels, [inf |-> current_inf, urls |-> current_urls])
    ELSE channels

RECURSIVE ParseFrom(_, _, _, _, _)
\* lines 29-49: the loop over lines[start_index:] and the final flush
ParseFrom(ls, i, current_inf, current_urls, channels) ==
    IF i > Len(ls) THEN Flush(channels, current_inf, current_urls)
    ELSE LET line == Strip(ls[i])
         IN  IF line = <<>>
             THEN ParseFrom(ls, i + 1, current_inf, current_urls, channels)
             ELSE IF StartsWith(line, <<"#EXTINF">>)
             THEN ParseFrom(ls, i + 1, line, <<>>,
                            Flush(channels, current_inf, current_urls))
             ELSE ParseFrom(ls, i + 1, current_inf, Append(current_urls, line), channels)

ParseChannels(ls) ==
    ParseFrom(ls, (IF HeaderOf(ls) # <<>> THEN 1 ELSE 0) + 1, NoInf, <<>>, <<>>)

(***************************************************************************)
(* url_sorter.py: renaming.                                                *)
(***************************************************************************)
RECURSIVE SubTvgName(_, _)
\* re.sub(r'tvg-name="[^"]*"', f'tvg-name="{name}"', s): every leftmost
\* non-overlapping match is replaced; name holds no backslash
SubTvgName(s, name) ==
    IF s = <<>> THEN <<>>
    ELSE LET closing == {j \in 3..Len(s) : s[j] = "\""}
         IN  IF Len(s) >= 3 /\ s[1] = "tvg-name=" /\ s[2] = "\"" /\ closing # {}
             THEN LET j == CHOOSE j \in closing : \A k \in closing : j <= k
                  IN  <<"tvg-name=", "\"">> \o name \o <<"\"">>
                          \o SubTvgName(SubSeq(s, j + 1, Len(s)), name)
             ELSE <<s[1]>> \o SubTvgName(Tail(s), name)

\* inf_line.rsplit(',', 1)[0] for a line that holds a comma
BeforeLastComma(s) ==
    LET commas == {i \in DOMAIN s : s[i] = ","}
    IN  SubSeq(s, 1, (CHOOSE i \in commas : \A j \in commas : j <= i) - 1)

rename_inf(inf, name) ==
    LET s == IF Contains(inf, <<"tvg-name=", "\"">>) THEN SubTvgName(inf, name) ELSE inf
    IN  IF "," \in Range(s)
        THEN BeforeLastComma(s) \o <<",">> \o name
        ELSE s \o <<",">> \o name

(***************************************************************************)
(* url_sorter.py: the channel processor and the writer.                    *)
(***************************************************************************)
\* the channel processor of the specification text: without a filter every
\* channel is a target
IsTargetGlobal(inf) ==
    IF target_channels # <<>>
    THEN \E i \in DOMAIN target_channels : Contains(inf, target_channels[i])
    ELSE TRUE

\* line 81
IsTarget(inf) ==
    IF target_channels # <<>>
    THEN \E i \in DOMAIN target_channels : Contains(inf, target_channels[i])
    ELSE FALSE

\* line 83
FinalInf(inf) ==
    IF IsTarget(inf) /\ new_name # <<>> THEN rename_inf(inf, new_name) ELSE inf

\* a processor that sorts every channel, filter or not
ShouldSortAlways(inf) == TRUE

\* line 87
ShouldSort(inf) == IF target_channels # <<>> THEN IsTarget(inf) ELSE TRUE

\* lines 83-96: the lines written for one channel
ChannelLines(ch) ==
    <<FinalInf(ch.inf)>>
        \o (IF ShouldSort(ch.inf) /\ ch.urls # <<>> THEN Sorted(ch.urls) ELSE ch.urls)

RECURSIVE WriteFrom(_, _)
WriteFrom(channels, i) ==
    IF i > Len(channels) THEN <<>>
    ELSE ChannelLines(channels[i]) \o WriteFrom(channels, i + 1)

\* lines 76-96: header, then every channel
Output(header, channels) == header \o WriteFrom(channels, 1)

(***************************************************************************)
(* url_sorter.py: runs of sort_m3u_urls.                                   *)
(***************************************************************************)
MaxLines == 4           \* lines of an input playlist

\* raw input lines (without the line terminator)
LinePool == { <<" ">>,
              <<"#EXTM3U">>,
              <<"#EXTINF", "tvg-name=", "\"", "x", "\"", ",", "x">>,
              <<"#EXTINF", ",", "#EXTM3U">>,
              <<"://", "a">>,
              <<"://", "c", " ">> }

\* -k
SorterKeywordLists == { <<Run(<<"a">>, 1)>>, <<Run(<<"c">>, 1), Run(<<"a">>, 1)>> }
\* -ch
TargetLists == { <<>>, << <<"x">> >> }
\* -rn
Names == { <<>>, <<"n">> }

SorterInit ==
    /\ pc = "start"
    /\ input_exists \in BOOLEAN
    /\ lines \in (IF input_exists THEN SeqsUpTo(LinePool, MaxLines) ELSE {<<>>})
    /\ keywords \in SorterKeywordLists
    /\ reverse_mode \in BOOLEAN
    /\ target_channels \in TargetLists
    /\ new_name \in Names
    /\ processed_content = <<>> /\ channels_data = <<>>
    /\ written = <<>> /\ first_written = <<>> /\ runs = 0
    /\ IdleSort /\ IdleRename /\ IdleHeader /\ IdleTool

\* lines 11-16: the input file cannot be opened; nothing is written
InputNotFound ==
    /\ pc = "start"
    /\ ~input_exists
    /\ pc' = "aborted"
    /\ UNCHANGED <<sorterVars, sortVars, renameVars, headerVars, toolVars>>

\* lines 5-100: one run of sort_m3u_urls
SortM3uUrls ==
    /\ pc = "start"
    /\ input_exists
    /\ processed_content' = HeaderOf(lines)
    /\ channels_data' = ParseChannels(lines)
    /\ written' = Output(processed_content', channels_data')
    /\ runs' = runs + 1
    /\ pc' = "done"
    /\ UNCHANGED <<lines, input_exists, keywords, reverse_mode, target_channels,
                   new_name, first_written, sortVars, renameVars, headerVars, toolVars>>

\* lines 102-112: the tool is run a second time, in global mode without rename,
\* with the same keywords and flags, on the file it has just written
RunOnOwnOutput ==
    /\ pc = "done"
    /\ runs = 1
    /\ target_channels = <<>> /\ new_name = <<>>
    /\ lines' = written
    /\ first_written' = written
    /\ pc' = "start"
    /\ UNCHANGED <<input_exists, keywords, reverse_mode, target_channels, new_name,
                   processed_content, channels_data, written, runs,
                   sortVars, renameVars, headerVars, toolVars>>

SorterNext == InputNotFound \/ SortM3uUrls \/ RunOnOwnOutput

SpecSorter == SorterInit /\ [][SorterNext]_vars

(***************************************************************************)
(* Properties of the runs of sort_m3u_urls.                                *)
(***************************************************************************)
\* Python: s.endswith(suffix)
EndsWith(s, suffix) ==
    Len(s) >= Len(suffix) /\ SubSeq(s, Len(s) - Len(suffix) + 1, Len(s)) = suffix

IsInfo(line) == StartsWith(line, <<"#EXTINF">>)

\* the written lines after the header line
Body == SubSeq(written, Len(processed_content) + 1, Len(written))

\* the written channels: each info line of Body with the lines that follow it
WrittenChannels ==
    LET infoAt == {i \in DOMAIN Body : IsInfo(Body[i])}
        Nth(n) == CHOOSE i \in infoAt : Cardinality({j \in infoAt : j < i}) = n - 1
        EndOf(i) == IF \E j \in infoAt : j > i
                    THEN (CHOOSE j \in infoAt : j > i /\ \A k \in infoAt : k > i => j <= k) - 1
                    ELSE Len(Body)
    IN  [n \in 1..Cardinality(infoAt) |->
            [inf |-> Body[Nth(n)], urls |-> SubSeq(Body, Nth(n) + 1, EndOf(Nth(n)))]]

\* the content lines of a written channel are in score order
InScoreOrder(urls) ==
    \A i, j \in DOMAIN urls : i < j => get_sort_score(urls[i]) <= get_sort_score(urls[j])

\* some channel of the input is not in score order
SomeChannelUnsorted ==
    \E i \in DOMAIN channels_data : ~InScoreOrder(channels_data[i].urls)

\* C3 as stated: in global mode with a rename string, the info line of every
\* channel is rewritten with the new name.
C3_GlobalRenamesAll ==
    (pc = "done" /\ target_channels = <<>> /\ new_name # <<>>) =>
        \A i \in DOMAIN WrittenChannels :
            EndsWith(WrittenChannels[i].inf, <<",">> \o new_name)

\* C3 amended: in global mode no channel is a rename target: every info line is
\* written as it was read, with or without a rename string, and every channel
\* is sorted.
C3_GlobalSortsOnly ==
    (pc = "done" /\ target_channels = <<>>) =>
        /\ Len(WrittenChannels) = Len(channels_data)
        /\ \A i \in DOMAIN channels_data :
               /\ WrittenChannels[i].inf = channels_data[i].inf
               /\ InScoreOrder(WrittenChannels[i].urls)
               /\ Len(WrittenChannels[i].urls) = Len(channels_data[i].urls)

\* C3 witness: a global run with a rename string over an input with an unsorted channel
C3_Witness ==
    /\ pc = "done" /\ target_channels = <<>> /\ new_name # <<>>
    /\ SomeChannelUnsorted
    /\ \E i \in DOMAIN channels_data : Contains(channels_data[i].inf, <<"tvg-name=">>)

MatchesFilter(inf) ==
    \E i \in DOMAIN target_channels : Contains(inf, target_channels[i])

\* C4: with a target filter, a channel whose info line holds no target substring
\* is written unchanged: same info line (also when a rename string is given),
\* content lines in input order.
C4_NonTargetUnchanged ==
    (pc = "done" /\ target_channels # <<>>) =>
        /\ Len(WrittenChannels) = Len(channels_data)
        /\ \A i \in DOMAIN channels_data :
               ~MatchesFilter(channels_data[i].inf)
                   => WrittenChannels[i] = channels_data[i]

\* C4 witness: a filtered run with a rename string, a target channel that is
\* renamed and a non-target channel that is out of score order and stays so
C4_Witness ==
    /\ pc = "done" /\ target_channels # <<>> /\ new_name # <<>>
    /\ \E i, j \in DOMAIN channels_data :
           /\ MatchesFilter(channels_data[i].inf)
           /\ WrittenChannels[i].inf # channels_data[i].inf
           /\ ~MatchesFilter(channels_data[j].inf)
           /\ ~InScoreOrder(channels_data[j].urls)
           /\ WrittenChannels[j].urls = channels_data[j].urls

\* C6: in global mode without rename, the run on the tool's own output writes
\* the lines it read.
C6_Idempotent ==
    (pc = "done" /\ runs = 2) => written = first_written

\* the first line of ls that is not blank, <<>> when there is none
FirstNonEmpty(ls) ==
    LET full == {i \in DOMAIN ls : Strip(ls[i]) # <<>>}
    IN  IF full = {} THEN <<>>
        ELSE Strip(ls[CHOOSE i \in full : \A j \in full : i <= j])

\* C10: when the first non-empty input line contains #EXTM3U, that line
\* (trimmed) is the first line of the output.
C10_HeaderAfterBlanks ==
    (pc = "done" /\ Contains(FirstNonEmpty(lines), <<"#EXTM3U">>)) =>
        (written # <<>> /\ written[1] = FirstNonEmpty(lines))

(***************************************************************************)
(* The sorted() call of one channel, on its own.                           *)
(***************************************************************************)
\* content lines of a channel: stripped, not blank, not starting with #EXTINF
ItemPool == { <<"://", "a">>, <<"://", "b">>, <<"://", "b", "a">>, <<"://", "c">>,
              <<"#", "a">> }

SortInit ==
    /\ pc = "sort"
    /\ keywords \in KeywordLists
    /\ reverse_mode \in BOOLEAN
    /\ item_list \in SeqsUpTo(ItemPool, MaxItems)
    /\ sorted_list = <<>>
    /\ lines = <<>> /\ input_exists = TRUE
    /\ target_channels = <<>> /\ new_name = <<>>
    /\ processed_content = <<>> /\ channels_data = <<>>
    /\ written = <<>> /\ first_written = <<>> /\ runs = 0
    /\ IdleRename /\ IdleHeader /\ IdleTool

\* line 91: sorted_list = sorted(ch["urls"], key=get_sort_score)
SortChannel ==
    /\ pc = "sort"
    /\ sorted_list' = SortedDecorated(item_list)
    /\ pc' = "sorted"
    /\ UNCHANGED <<sorterVars, item_list, renameVars, headerVars, toolVars>>

SortNext == SortChannel

SpecSort == SortInit /\ [][SortNext]_vars

\* the lines of a decorated list
Items(d) == [i \in DOMAIN d |-> d[i].item]

\* the three groups of the content lines: keyword-matching URLs, other URLs, non-URL lines
IsUrl(item) == Contains(item, <<"://">>)
IsMatched(item) == IsUrl(item) /\ FirstMatch(keywords, item) >= 0
GroupRank(item) ==
    IF ~IsUrl(item) THEN 2
    ELSE IF IsMatched(item) THEN (IF reverse_mode THEN 1 ELSE 0)
    ELSE (IF reverse_mode THEN 0 ELSE 1)

\* C1: the sorted content lines of a channel are grouped: normal mode keyword
\* matches (by index of the first matching keyword), unmatched URLs, non-URL
\* lines; reverse mode unmatched URLs, keyword matches (by index of the first
\* matching keyword), non-URL lines.
C1_Grouping ==
    pc = "sorted" =>
        \A i, j \in DOMAIN sorted_list :
            i < j =>
                /\ GroupRank(sorted_list[i].item) <= GroupRank(sorted_list[j].item)
                /\ (IsMatched(sorted_list[i].item) /\ IsMatched(sorted_list[j].item)
                        => FirstMatch(keywords, sorted_list[i].item)
                               <= FirstMatch(keywords, sorted_list[j].item))

\* C2: sorting is stable: the output holds exactly the input lines, and two lines
\* of equal score keep their relative input order.
C2_Stable ==
    pc = "sorted" =>
        /\ Len(sorted_list) = Len(item_list)
        /\ {sorted_list[i].pos : i \in DOMAIN sorted_list} = DOMAIN item_list
        /\ \A i \in DOMAIN sorted_list :
               /\ sorted_list[i].item = item_list[sorted_list[i].pos]
               /\ sorted_list[i].key = get_sort_score(sorted_list[i].item)
        /\ \A i, j \in DOMAIN sorted_list :
               (i < j /\ sorted_list[i].key = sorted_list[j].key)
                   => sorted_list[i].pos < sorted_list[j].pos

\* C2 witness: a channel that sorting reorders and that holds two distinct lines of equal score
C2_Witness ==
    /\ pc = "sorted"
    /\ Items(sorted_list) # item_list
    /\ \E i, j \in DOMAIN sorted_list :
           /\ i < j
           /\ sorted_list[i].key = sorted_list[j].key
           /\ sorted_list[i].item # sorted_list[j].item

(***************************************************************************)
(* rename_inf on its own.                                                  *)
(***************************************************************************)
MaxInfLen == 5          \* tokens of an info line after "#EXTINF"
MaxNameLen == 2         \* tokens of the new name

\* what follows "#EXTINF" in an info line
InfTokens == {"tvg-name=", "\"", ",", "o"}
\* -rn values that are truthy
NameTokens == {"n", ","}

RenameInit ==
    /\ pc = "rename"
    /\ \E tail \in SeqsUpTo(InfTokens, MaxInfLen) : inf_line = <<"#EXTINF">> \o tail
    /\ new_name \in SeqsUpTo(NameTokens, MaxNameLen) \ {<<>>}
    /\ final_inf = <<>>
    /\ lines = <<>> /\ input_exists = TRUE
    /\ keywords = <<>> /\ reverse_mode = FALSE /\ target_channels = <<>>
    /\ processed_content = <<>> /\ channels_data = <<>>
    /\ written = <<>> /\ first_written = <<>> /\ runs = 0
    /\ IdleSort /\ IdleHeader /\ IdleTool

\* line 83: final_inf = rename_inf(ch["inf"], new_name)
RenameChannel ==
    /\ pc = "rename"
    /\ final_inf' = rename_inf(inf_line, new_name)
    /\ pc' = "renamed"
    /\ UNCHANGED <<sorterVars, sortVars, inf_line, headerVars, toolVars>>

RenameNext == RenameChannel

SpecRename == RenameInit /\ [][RenameNext]_vars

\* the line holds a tvg-name="..." attribute (opening and closing quote)
HasTvgName(s) ==
    \E p \in DOMAIN s :
        /\ p + 2 <= Len(s)
        /\ s[p] = "tvg-name=" /\ s[p + 1] = "\""
        /\ \E j \in (p + 2)..Len(s) : s[j] = "\""

\* C5: for an info line with a tvg-name="..." attribute and any new name, the
\* renamed line contains tvg-name="<newName>" and ends with ",<newName>".
C5_RenameSetsBoth ==
    (pc = "renamed" /\ HasTvgName(inf_line)) =>
        /\ Contains(final_inf, <<"tvg-name=", "\"">> \o new_name \o <<"\"">>)
        /\ EndsWith(final_inf, <<",">> \o new_name)

(***************************************************************************)
(* m3u_header_tool.py: process_m3u_header.                                 *)
(***************************************************************************)
RECURSIVE SplitOn(_, _)
\* Python: s.split(sep) for a one-character separator
SplitOn(s, sep) ==
    LET at == {i \in DOMAIN s : s[i] = sep}
    IN  IF at = {} THEN <<s>>
        ELSE LET i == CHOOSE i \in at : \A j \in at : i <= j
             IN  <<SubSeq(s, 1, i - 1)>> \o SplitOn(SubSeq(s, i + 1, Len(s)), sep)

\* Python: s.splitlines(): a final line terminator opens no further line
SplitLines(s) ==
    LET parts == SplitOn(s, "\n")
    IN  IF parts[Len(parts)] = <<>> THEN SubSeq(parts, 1, Len(parts) - 1) ELSE parts

RECURSIVE JoinLines(_)
\* Python: '\n'.join(ls)
JoinLines(ls) ==
    IF ls = <<>> THEN <<>>
    ELSE IF Len(ls) = 1 THEN ls[1]
    ELSE ls[1] \o <<"\n">> \o JoinLines(Tail(ls))

\* x_tvg_url_pattern.search(line): the value of the first x-tvg-url="..." of the
\* line as <<value>>, <<>> when the pattern does not match
RECURSIVE SearchTvgUrl(_)
SearchTvgUrl(s) ==
    IF s = <<>> THEN <<>>
    ELSE LET closing == {j \in 3..Len(s) : s[j] = "\""}
         IN  IF Len(s) >= 3 /\ s[1] = "x-tvg-url=" /\ s[2] = "\"" /\ closing # {}
             THEN <<SubSeq(s, 3, (CHOOSE j \in closing : \A k \in closing : j <= k) - 1)>>
             ELSE SearchTvgUrl(Tail(s))

RECURSIVE SubTvgUrl(_, _)
\* x_tvg_url_pattern.sub(f'x-tvg-url="{value}"', s); value holds no backslash
SubTvgUrl(s, value) ==
    IF s = <<>> THEN <<>>
    ELSE LET closing == {j \in 3..Len(s) : s[j] = "\""}
         IN  IF Len(s) >= 3 /\ s[1] = "x-tvg-url=" /\ s[2] = "\"" /\ closing # {}
             THEN LET j == CHOOSE j \in closing : \A k \in closing : j <= k
                  IN  <<"x-tvg-url=", "\"">> \o value \o <<"\"">>
                          \o SubTvgUrl(SubSeq(s, j + 1, Len(s)), value)
             ELSE <<s[1]>> \o SubTvgUrl(Tail(s), value)

IsDirective(line) == StartsWith(line, <<"#EXTM3U">>)

\* lines 141-168: what is appended for a line that starts with #EXTM3U and is kept
RewriteDirective(line, replace, force) ==
    LET tvg_match == SearchTvgUrl(line)
    IN  IF force # None
        THEN IF tvg_match # <<>>
             THEN SubTvgUrl(line, force[1])
             ELSE line \o <<" ", "x-tvg-url=", "\"">> \o force[1] \o <<"\"">>
        ELSE IF replace # None
        THEN IF tvg_match # <<>> /\ Strip(tvg_match[1]) # <<>>
             THEN SubTvgUrl(line, replace[1])
             ELSE line
        ELSE line

\* a tool that rewrites the first directive line only
RECURSIVE ProcessLinesFirstOnly(_, _, _, _, _)
ProcessLinesFirstOnly(ls, i, replace, force, delete) ==
    IF i > Len(ls) THEN <<>>
    ELSE LET line == RStrip(ls[i])
             seen == \E k \in 1..(i - 1) : IsDirective(RStrip(ls[k]))
         IN  IF IsDirective(line) /\ ~seen
             THEN (IF delete THEN <<>> ELSE <<RewriteDirective(line, replace, force)>>)
                      \o ProcessLinesFirstOnly(ls, i + 1, replace, force, delete)
             ELSE <<line>> \o ProcessLinesFirstOnly(ls, i + 1, replace, force, delete)

RECURSIVE ProcessLines(_, _, _, _, _)
\* lines 133-172: the loop over the lines
ProcessLines(ls, i, replace, force, delete) ==
    IF i > Len(ls) THEN <<>>
    ELSE LET line == RStrip(ls[i])
         IN  IF IsDirective(line)
             THEN (IF delete THEN <<>> ELSE <<RewriteDirective(line, replace, force)>>)
                      \o ProcessLines(ls, i + 1, replace, force, delete)
             ELSE <<line>> \o ProcessLines(ls, i + 1, replace, force, delete)

\* lines 174-180: a directive line is put first when none is left
WithDirective(processed_lines, force, delete) ==
    LET none == \A i \in DOMAIN processed_lines : ~IsDirective(processed_lines[i])
    IN  IF force # None /\ none
        THEN << <<"#EXTM3U", " ", "x-tvg-url=", "\"">> \o force[1] \o <<"\"">> >>
                 \o processed_lines
        ELSE IF none /\ ~delete
        THEN << <<"#EXTM3U">> >> \o processed_lines
        ELSE processed_lines

process_m3u_header(content, replace, force, delete) ==
    JoinLines(WithDirective(ProcessLines(SplitLines(content), 1, replace, force, delete),
                            force, delete))

(***************************************************************************)
(* process_m3u_header on its own.                                          *)
(***************************************************************************)
MaxHeaderLines == 3     \* lines of a file handed to process_m3u_header

HeaderLinePool == { <<>>,
                    <<"#EXTM3U">>,
                    <<"#EXTM3U", " ", "x-tvg-url=", "\"", "u", "\"">>,
                    <<"#EXTM3U", " ", "x-tvg-url=", "\"", " ", "\"">>,
                    <<" ", "#EXTM3U">>,
                    <<"x">>,
                    <<"x", " ">> }

\* the files: the lines joined, with or without a final line terminator
HeaderContents ==
    UNION { {JoinLines(ls), JoinLines(ls) \o <<"\n">>} :
                ls \in SeqsUpTo(HeaderLinePool, MaxHeaderLines) }

\* values of -e and -E
OptionValues == {None, Some(<<>>), Some(<<"v">>)}

\* main, lines 274-276: -e and -E are not both given (and not empty)
OptionsAccepted(replace, force) ==
    ~(replace # None /\ replace[1] # <<>> /\ force # None /\ force[1] # <<>>)

HeaderInit ==
    /\ pc = "header"
    /\ file_content \in HeaderContents
    /\ replace_value \in OptionValues
    /\ force_value \in OptionValues
    /\ OptionsAccepted(replace_value, force_value)
    /\ delete_extm3u \in BOOLEAN
    /\ new_content = <<>>
    /\ IdleSorter /\ keywords = <<>> /\ reverse_mode = FALSE
    /\ IdleSort /\ IdleRename /\ IdleTool

\* lines 194-199: processed_content = process_m3u_header(content, ...)
ProcessHeader ==
    /\ pc = "header"
    /\ new_content' = process_m3u_header(file_content, replace_value, force_value,
                                         delete_extm3u)
    /\ pc' = "processed"
    /\ UNCHANGED <<sorterVars, sortVars, renameVars, file_content, optionVars, toolVars>>

HeaderNext == ProcessHeader

SpecHeader == HeaderInit /\ [][HeaderNext]_vars

\* the lines of the input as the tool reads them, and of the text it returns
InLines == SplitLines(file_content)
OutLines == SplitOn(new_content, "\n")

\* ls without its element at position p (ls itself for p = 0)
DeleteAt(ls, p) ==
    IF p = 0 THEN ls ELSE SubSeq(ls, 1, p - 1) \o SubSeq(ls, p + 1, Len(ls))

\* position of the first directive line of ls, 0 when there is none
FirstDirective(ls) ==
    LET at == {i \in DOMAIN ls : IsDirective(ls[i])}
    IN  IF at = {} THEN 0 ELSE CHOOSE i \in at : \A j \in at : i <= j

NonDirective(ls) == SelectSeq(ls, LAMBDA l : ~IsDirective(l))

\* C8 as stated: only the first directive line is rewritten: the other input
\* lines, a later directive line included, are the output lines, character for
\* character and in order, but for the one line rewritten, deleted or added.
C8_OnlyFirstDirective ==
    pc = "processed" =>
        \E p \in 0..Len(OutLines) :
            JoinLines(DeleteAt(OutLines, p))
                = JoinLines(DeleteAt(InLines, FirstDirective(InLines)))

\* C8 amended: every line that starts with #EXTM3U is rewritten or deleted, not
\* only the first; every other input line is in the output, in order, with its
\* trailing white space removed and otherwise character for character, and
\* the output holds no other line that is not a directive.
C8_OtherLinesRStripped ==
    pc = "processed" =>
        LET others == NonDirective(InLines)
        IN  /\ JoinLines(NonDirective(OutLines))
                   = JoinLines([i \in DOMAIN others |-> RStrip(others[i])])
            /\ (delete_extm3u /\ force_value = None)
                   => \A i \in DOMAIN OutLines : ~IsDirective(OutLines[i])
            /\ force_value # None
                   => \A i \in DOMAIN OutLines :
                          IsDirective(OutLines[i])
                              => SearchTvgUrl(OutLines[i]) = Some(force_value[1])

\* C8 witness: a file with two directive lines and a line with trailing white
\* space, processed with -E
C8_Witness ==
    /\ pc = "processed"
    /\ force_value # None /\ ~delete_extm3u
    /\ Cardinality({i \in DOMAIN InLines : IsDirective(InLines[i])}) >= 2
    /\ \E i \in DOMAIN InLines : ~IsDirective(InLines[i]) /\ RStrip(InLines[i]) # InLines[i]
    /\ new_content # file_content

(***************************************************************************)
(* m3u_header_tool.py: the file system, validate_arguments.                *)
(***************************************************************************)
MaxInputs == 2          \* paths given with -i

Absent == [kind |-> "absent", readable |-> FALSE, content |-> <<>>]
File(c, r) == [kind |-> "file", readable |-> r, content |-> c]
Directory == [kind |-> "dir", readable |-> TRUE, content |-> <<>>]

\* os.path.abspath in the working directory /w
Abspath(path) ==
    CASE path = "a.m3u" -> "/w/a.m3u"
      [] path = "./a.m3u" -> "/w/a.m3u"
      [] path = "b.m3u" -> "/w/b.m3u"
      [] path = "d" -> "/w/d"
      [] path = "nofile.m3u" -> "/w/nofile.m3u"

\* names that tempfile.mkstemp(dir=..., suffix='.m3u', prefix='.tmp_') can return
TempNames == <<"/w/.tmp_1.m3u", "/w/.tmp_2.m3u", "/w/.tmp_3.m3u", "/w/.tmp_4.m3u">>

InputPaths == {"a.m3u", "./a.m3u", "d", "nofile.m3u"}
OutputPaths == {"a.m3u", "b.m3u"}
AbsPaths == {Abspath(path) : path \in InputPaths \cup OutputPaths} \cup Range(TempNames)

\* the text of a.m3u and of b.m3u
ToolContents == { <<"#EXTM3U", "\n", "x">>, <<"x", " ", "\n">> }
OtherContent == <<"y">>

\* -e, -E, -c as given to the tool
ToolOptions == { <<None, None, FALSE>>,
                 <<None, Some(<<"v">>), FALSE>>,
                 <<None, None, TRUE>>,
                 <<Some(<<"v">>), Some(<<"v">>), FALSE>> }

\* Python truthiness of an option value
Truthy(opt) == opt # None /\ opt[1] # <<>>

\* os.path.exists(path)
Exists(path) == fs[Abspath(path)].kind # "absent"

\* lines 81-115; output is None or <<path>>
validate_arguments(input_path, output) ==
    /\ Exists(input_path)
    /\ fs[Abspath(input_path)].readable
    /\ fs[Abspath(input_path)].kind = "file"
    /\ (output # None => dir_writable)

\* the file handled by the loop, and where its result goes (line 295, line 325)
CurrentInput == args_input[idx]
CurrentOutput == IF args_output # None THEN args_output[1] ELSE args_input[idx]

ToolInit ==
    /\ pc = "main"
    /\ \E a \in ToolContents, r \in BOOLEAN, b \in {Absent, File(OtherContent, TRUE)} :
           fs = [path \in AbsPaths |->
                    CASE path = "/w/a.m3u" -> File(a, r)
                      [] path = "/w/b.m3u" -> b
                      [] path = "/w/d" -> Directory
                      [] OTHER -> Absent]
    /\ dir_writable \in BOOLEAN
    /\ args_input \in SeqsUpTo(InputPaths, MaxInputs) \ {<<>>}
    /\ args_output \in {None} \cup {Some(path) : path \in OutputPaths}
    /\ force_overwrite \in BOOLEAN
    /\ \E o \in ToolOptions :
           replace_value = o[1] /\ force_value = o[2] /\ delete_extm3u = o[3]
    /\ file_content = <<>> /\ new_content = <<>>
    /\ idx = 0 /\ temp_path = None /\ success = FALSE
    /\ success_count = 0 /\ failed_count = 0 /\ exit_code = NotExited
    /\ orig_file = Absent /\ failed_step = "" /\ temp_complete = FALSE
    /\ unlink_failed = FALSE /\ some_file_failed = FALSE
    /\ IdleSorter /\ keywords = <<>> /\ reverse_mode = FALSE
    /\ IdleSort /\ IdleRename

otherTools == <<sorterVars, sortVars, renameVars>>
argVars == <<dir_writable, args_input, args_output, force_overwrite, optionVars>>
callVars == <<temp_path, success, orig_file, failed_step, temp_complete, unlink_failed>>
countVars == <<success_count, failed_count>>

(***************************************************************************)
(* m3u_header_tool.py: main.                                               *)
(***************************************************************************)
\* lines 273-286: conflicting options, -o with several inputs, a missing input
ArgumentsRejected ==
    /\ pc = "main"
    /\ \/ Truthy(replace_value) /\ Truthy(force_value)
       \/ args_output # None /\ Len(args_input) > 1
       \/ \E i \in DOMAIN args_input : ~Exists(args_input[i])
    /\ exit_code' = 1
    /\ some_file_failed' = TRUE
    /\ pc' = "exit"
    /\ UNCHANGED <<otherTools, argVars, callVars, countVars, fs, idx,
                   file_content, new_content>>

ArgumentsAccepted ==
    /\ pc = "main"
    /\ ~(Truthy(replace_value) /\ Truthy(force_value))
    /\ ~(args_output # None /\ Len(args_input) > 1)
    /\ \A i \in DOMAIN args_input : Exists(args_input[i])
    /\ idx' = 1
    /\ pc' = "validate"
    /\ UNCHANGED <<otherTools, argVars, callVars, countVars, fs, exit_code,
                   some_file_failed, file_content, new_content>>

\* lines 297-298: single-output mode, validate_arguments fails: sys.exit(1)
ValidateExits ==
    /\ pc = "validate"
    /\ args_output # None
    /\ ~validate_arguments(CurrentInput, args_output)
    /\ exit_code' = 1
    /\ some_file_failed' = TRUE
    /\ pc' = "exit"
    /\ UNCHANGED <<otherTools, argVars, callVars, countVars, fs, idx,
                   file_content, new_content>>

\* lines 300-308: the output exists, is another file, and --force-overwrite is not given
OutputExists ==
    /\ pc = "validate"
    /\ args_output # None
    /\ validate_arguments(CurrentInput, args_output)
    /\ Exists(CurrentOutput) /\ Abspath(CurrentInput) # Abspath(CurrentOutput)
    /\ ~force_overwrite
    /\ exit_code' = 1
    /\ some_file_failed' = TRUE
    /\ pc' = "exit"
    /\ UNCHANGED <<otherTools, argVars, callVars, countVars, fs, idx,
                   file_content, new_content>>

\* lines 327-328: in-place mode, validate_arguments fails: continue
ValidateSkips ==
    /\ pc = "validate"
    /\ args_output = None
    /\ ~validate_arguments(CurrentInput, None)
    /\ some_file_failed' = TRUE
    /\ IF idx < Len(args_input)
       THEN idx' = idx + 1 /\ pc' = "validate"
       ELSE idx' = idx /\ pc' = "summary"
    /\ UNCHANGED <<otherTools, argVars, callVars, countVars, fs, exit_code,
                   file_content, new_content>>

\* lines 313 and 333: process_single_file is called
ValidateAccepts ==
    /\ pc = "validate"
    /\ validate_arguments(CurrentInput, args_output)
    /\ args_output # None =>
           ~(Exists(CurrentOutput) /\ Abspath(CurrentInput) # Abspath(CurrentOutput)
                 /\ ~force_overwrite)
    /\ pc' = "call"
    /\ UNCHANGED <<otherTools, argVars, callVars, countVars, fs, idx, exit_code,
                   some_file_failed, file_content, new_content>>

\* lines 313-320 and 333-340: the result is counted, the loop goes on
Count ==
    /\ pc = "count"
    /\ IF success
       THEN success_count' = success_count + 1 /\ failed_count' = failed_count
       ELSE success_count' = success_count /\ failed_count' = failed_count + 1
    /\ some_file_failed' = (some_file_failed \/ ~success)
    /\ IF args_output = None /\ idx < Len(args_input)
       THEN idx' = idx + 1 /\ pc' = "validate"
       ELSE idx' = idx /\ pc' = "summary"
    /\ UNCHANGED <<otherTools, argVars, callVars, fs, exit_code,
                   file_content, new_content>>

\* lines 342-364: the counts are printed, the exit status is set
Summary ==
    /\ pc = "summary"
    /\ exit_code' = IF failed_count > 0 THEN 1 ELSE 0
    /\ pc' = "exit"
    /\ UNCHANGED <<otherTools, argVars, callVars, countVars, fs, idx,
                   some_file_failed, file_content, new_content>>

(***************************************************************************)
(* m3u_header_tool.py: process_single_file, safe_write_output,             *)
(* cleanup_temp_file.  Every call that can raise has a step that raises.   *)
(***************************************************************************)
\* a comparison of the paths as they were given
IsSameFileByName(input_path, output_path) == input_path = output_path

\* lines 24-26
IsSameFile(input_path, output_path) == Abspath(input_path) = Abspath(output_path)

\* a name that mkstemp has not handed out yet
FreshTemp ==
    LET free == {i \in DOMAIN TempNames : fs[TempNames[i]].kind = "absent"}
    IN  TempNames[CHOOSE i \in free : \A j \in free : i <= j]

\* the file that out_f writes to
WriteTarget == IF temp_path # None THEN temp_path[1] ELSE Abspath(CurrentOutput)

\* process_single_file has a fresh set of locals
NewCall ==
    /\ orig_file' = fs[Abspath(CurrentOutput)]
    /\ temp_path' = None
    /\ temp_complete' = FALSE
    /\ unlink_failed' = FALSE

\* lines 191-199: the input is read and processed
ReadInput ==
    /\ pc = "call"
    /\ NewCall
    /\ file_content' = fs[Abspath(CurrentInput)].content
    /\ new_content' = process_m3u_header(file_content', replace_value, force_value,
                                         delete_extm3u)
    /\ failed_step' = ""
    /\ pc' = "open"
    /\ UNCHANGED <<otherTools, argVars, countVars, fs, idx, success, exit_code,
                   some_file_failed>>

\* lines 191-192, 210-212: open or read raises; process_single_file returns False
ReadFails ==
    /\ pc = "call"
    /\ NewCall
    /\ failed_step' = "read"
    /\ success' = FALSE
    /\ pc' = "count"
    /\ UNCHANGED <<otherTools, argVars, countVars, fs, idx, exit_code,
                   some_file_failed, file_content, new_content>>

\* safe_write_output returns (False, temp_path) from its except clause, lines 66-68
WriteOutputRaised(step) ==
    /\ failed_step' = step
    /\ success' = FALSE
    /\ pc' = "cleanup"

\* lines 32-40: the temp file is created beside the output
Mkstemp ==
    /\ pc = "open"
    /\ IsSameFile(CurrentInput, CurrentOutput)
    /\ dir_writable
    /\ fs' = [fs EXCEPT ![FreshTemp] = File(<<>>, TRUE)]
    /\ temp_path' = Some(FreshTemp)
    /\ pc' = "fdopen"
    /\ UNCHANGED <<otherTools, argVars, countVars, idx, success, exit_code,
                   orig_file, failed_step, temp_complete, unlink_failed,
                   some_file_failed, file_content, new_content>>

MkstempFails ==
    /\ pc = "open"
    /\ IsSameFile(CurrentInput, CurrentOutput)
    /\ WriteOutputRaised("mkstemp")
    /\ UNCHANGED <<otherTools, argVars, countVars, fs, idx, exit_code, temp_path,
                   orig_file, temp_complete, unlink_failed, some_file_failed,
                   file_content, new_content>>

\* line 43
Fdopen ==
    /\ pc = "fdopen"
    /\ pc' = "write"
    /\ UNCHANGED <<otherTools, argVars, callVars, countVars, fs, idx, exit_code,
                   some_file_failed, file_content, new_content>>

FdopenFails ==
    /\ pc = "fdopen"
    /\ WriteOutputRaised("fdopen")
    /\ UNCHANGED <<otherTools, argVars, countVars, fs, idx, exit_code, temp_path,
                   orig_file, temp_complete, unlink_failed, some_file_failed,
                   file_content, new_content>>

\* line 46: open(output_path, 'w') creates or truncates the output
OpenOutput ==
    /\ pc = "open"
    /\ ~IsSameFile(CurrentInput, CurrentOutput)
    /\ LET out == Abspath(CurrentOutput)
       IN  /\ fs[out].kind # "dir"
           /\ fs[out].kind = "absent" => dir_writable
           /\ fs' = [fs EXCEPT ![out] = File(<<>>, TRUE)]
    /\ pc' = "write"
    /\ UNCHANGED <<otherTools, argVars, callVars, countVars, idx, exit_code,
                   some_file_failed, file_content, new_content>>

OpenOutputFails ==
    /\ pc = "open"
    /\ ~IsSameFile(CurrentInput, CurrentOutput)
    /\ WriteOutputRaised("open")
    /\ UNCHANGED <<otherTools, argVars, countVars, fs, idx, exit_code, temp_path,
                   orig_file, temp_complete, unlink_failed, some_file_failed,
                   file_content, new_content>>

\* lines 49-50 and 64: the whole text is written and the file closed
WriteContent ==
    /\ pc = "write"
    /\ fs' = [fs EXCEPT ![WriteTarget].content = new_content]
    /\ IF IsSameFile(CurrentInput, CurrentOutput)
       THEN temp_complete' = TRUE /\ success' = success /\ pc' = "replace"
       ELSE temp_complete' = temp_complete /\ success' = TRUE /\ pc' = "count"
    /\ UNCHANGED <<otherTools, argVars, countVars, idx, exit_code, temp_path,
                   orig_file, failed_step, unlink_failed, some_file_failed,
                   file_content, new_content>>

\* lines 49-50: write or close raises; any prefix of the text may be in the file
WriteFails ==
    /\ pc = "write"
    /\ \E n \in 0..Len(new_content) :
           fs' = [fs EXCEPT ![WriteTarget].content = SubSeq(new_content, 1, n)]
    /\ WriteOutputRaised("write")
    /\ UNCHANGED <<otherTools, argVars, countVars, idx, exit_code, temp_path,
                   orig_file, temp_complete, unlink_failed, some_file_failed,
                   file_content, new_content>>

\* the temp file takes the place of the output
Moved ==
    /\ fs' = [fs EXCEPT ![Abspath(CurrentOutput)] = fs[temp_path[1]],
                        ![temp_path[1]] = Absent]
    /\ temp_path' = None
    /\ success' = TRUE
    /\ pc' = "count"

\* lines 56-57: os.replace
Replace ==
    /\ pc = "replace"
    /\ Moved
    /\ UNCHANGED <<otherTools, argVars, countVars, idx, exit_code, orig_file,
                   failed_step, temp_complete, unlink_failed, some_file_failed,
                   file_content, new_content>>

\* lines 58-60: os.replace raises, shutil.move is tried
ReplaceFails ==
    /\ pc = "replace"
    /\ pc' = "move"
    /\ UNCHANGED <<otherTools, argVars, callVars, countVars, fs, idx, exit_code,
                   some_file_failed, file_content, new_content>>

\* lines 61-62: shutil.move
Move ==
    /\ pc = "move"
    /\ Moved
    /\ UNCHANGED <<otherTools, argVars, countVars, idx, exit_code, orig_file,
                   failed_step, temp_complete, unlink_failed, some_file_failed,
                   file_content, new_content>>

\* line 61: shutil.move raises.  It renames, and when the rename fails it copies
\* the temp file over the output and unlinks it: the output is as it was, or
\* holds a prefix of the copied text; the temp file is still there
MoveFails ==
    /\ pc = "move"
    /\ \/ fs' = fs
       \/ \E n \in 0..Len(new_content) :
              fs' = [fs EXCEPT ![Abspath(CurrentOutput)].content =
                                   SubSeq(new_content, 1, n)]
    /\ WriteOutputRaised("replace")
    /\ UNCHANGED <<otherTools, argVars, countVars, idx, exit_code, temp_path,
                   orig_file, temp_complete, unlink_failed, some_file_failed,
                   file_content, new_content>>

\* os.path.exists(temp_path) for the temp_path that safe_write_output returned
TempExists == temp_path # None /\ fs[temp_path[1]].kind # "absent"

\* lines 204-206, 74: nothing to clean up
CleanupNothing ==
    /\ pc = "cleanup"
    /\ ~TempExists
    /\ pc' = "count"
    /\ UNCHANGED <<otherTools, argVars, callVars, countVars, fs, idx, exit_code,
                   some_file_failed, file_content, new_content>>

\* lines 204-206, 74-77: the temp file is unlinked
CleanupUnlink ==
    /\ pc = "cleanup"
    /\ TempExists
    /\ fs' = [fs EXCEPT ![temp_path[1]] = Absent]
    /\ pc' = "count"
    /\ UNCHANGED <<otherTools, argVars, callVars, countVars, idx, exit_code,
                   some_file_failed, file_content, new_content>>

\* lines 78-79: os.unlink raises; a warning is printed, the temp file stays
CleanupUnlinkFails ==
    /\ pc = "cleanup"
    /\ TempExists
    /\ unlink_failed' = TRUE
    /\ pc' = "count"
    /\ UNCHANGED <<otherTools, argVars, countVars, fs, idx, exit_code, temp_path,
                   success, orig_file, failed_step, temp_complete,
                   some_file_failed, file_content, new_content>>

ToolNext ==
    \/ ArgumentsRejected \/ ArgumentsAccepted
    \/ ValidateExits \/ OutputExists \/ ValidateSkips \/ ValidateAccepts
    \/ ReadInput \/ ReadFails
    \/ Mkstemp \/ MkstempFails \/ Fdopen \/ FdopenFails
    \/ OpenOutput \/ OpenOutputFails
    \/ WriteContent \/ WriteFails
    \/ Replace \/ ReplaceFails \/ Move \/ MoveFails
    \/ CleanupNothing \/ CleanupUnlink \/ CleanupUnlinkFails
    \/ Count \/ Summary

SpecTool == ToolInit /\ [][ToolNext]_vars

(***************************************************************************)
(* Properties of the header tool.                                          *)
(***************************************************************************)
\* process_single_file has been called for the current input and is not yet counted
InCall == pc \in {"open", "fdopen", "write", "replace", "move", "cleanup", "count"}

\* the call rewrites its own input
InPlaceCall == InCall /\ Abspath(CurrentInput) = Abspath(CurrentOutput)

\* process_single_file has returned
Returned == pc = "count"

FailedBeforeReplace == failed_step \in {"read", "mkstemp", "fdopen", "write"}

C9_FailureExitsNonZero ==
    (pc = "exit" /\ some_file_failed) => exit_code # 0

====
